---- MODULE Spec2Model ----
(***************************************************************************)
(* State-machine model of troy::Ciphertext (src/src/ciphertext.h): the     *)
(* RNS ciphertext container, its backing HostDynamicArray, and the         *)
(* reserve / resize / release / copy / move / accessor surface.            *)
(*                                                                         *)
(* Two container slots share one heap of backing buffers, so that copy,    *)
(* move and buffer ownership are observable.  Words and std::size_t are    *)
(* WordBits wide instead of 64, so that overflow and the all-ones marker   *)
(* are within the range the model checker can enumerate.                   *)
(***************************************************************************)
EXTENDS Integers, Sequences, FiniteSets, TLC

\* ---------------------------------------------------------------- bounds
WordBits == 5
MaxCap == 3
MaxWrites == 1

\* ------------------------------------------------------------- constants
SEAL_CIPHERTEXT_SIZE_MIN == 2
parmsIDZero == 0
firstParmsID == 1

SizeMax == 2 ^ WordBits - 1
SeedMarker == 2 ^ WordBits - 1
HugeCap == 2 ^ (WordBits - 1)

Cts == {1, 2}
Writers == {1}
BufIds == {1, 2}
KnownIds == {1, 2}
ArgIds == {1, 2, 3}
CapArgs == (1 .. MaxCap) \cup {HugeCap}
SizeArgs == (0 .. MaxCap) \cup {HugeCap}
CurArgs == {1, 2, MaxCap}
CtxArgs == {2, MaxCap}
ReserveArgs == (KnownIds \X CapArgs) \cup {<<3, 2>>}
ResizeArgs == (KnownIds \X SizeArgs) \cup {<<3, 2>>}
Seeds == {0, 1}
PolyIdx == 0 .. MaxCap

VARIABLES cts, heap, writes, last

vars == <<cts, heap, writes, last>>

\* ---------------------------------------------- parameter registry (context)
\* poly_modulus_degree, coeff_modulus size and the primes of a parameter set
contextData(parms_id) ==
    IF parms_id = 1
    THEN [poly_modulus_degree |-> 1, coeff_modulus |-> <<3, 5>>]
    ELSE [poly_modulus_degree |-> 3, coeff_modulus |-> <<7>>]

MaxPolyWords ==
    LET n(p) == contextData(p).poly_modulus_degree * Len(contextData(p).coeff_modulus)
    IN  CHOOSE w \in {n(p) : p \in KnownIds} : \A q \in KnownIds : n(q) <= w
CoeffIdx == 0 .. (MaxPolyWords * MaxCap)

\* --------------------------------------------------------- backing buffer
NoBuf == [size |-> 0, words |-> <<>>]

Zeros(n) == [i \in 1 .. n |-> 0]

Min(a, b) == IF a < b THEN a ELSE b

\* fault variant of mul_safe: the product wraps around the word size
mul_safeWrap(a, b) == (a * b) % (SizeMax + 1)

\* util::mul_safe: the product, or -1 when it does not fit std::size_t
mul_safe(a, b) == IF a * b > SizeMax THEN -1 ELSE a * b

\* fault variant of bufReserve: the new allocation is not filled from the old
bufReserveNoCopy(b, n) ==
    IF n > Len(b.words)
    THEN [size |-> b.size, words |-> Zeros(n)]
    ELSE b

\* HostDynamicArray::reserve: a larger allocation keeps the logical words
bufReserve(b, n) ==
    IF n > Len(b.words)
    THEN [size |-> b.size,
          words |-> SubSeq(b.words, 1, b.size) \o Zeros(n - b.size)]
    ELSE b

\* fault variant of bufResize: the logical size moves, stale words stay
bufResizeNoZero(b, n) == [size |-> n, words |-> b.words]

\* HostDynamicArray::resize within the allocation: words newly brought into
\* the logical view are zero
bufResize(b, n) ==
    [size |-> n,
     words |-> [i \in 1 .. Len(b.words) |->
                   IF i > b.size /\ i <= n THEN 0 ELSE b.words[i]]]

\* ------------------------------------------------------------- container
\* Ciphertext() and the member initialisers
EmptyCt ==
    [parms_id_ |-> parmsIDZero, is_ntt_form_ |-> FALSE, size_ |-> 0,
     poly_modulus_degree_ |-> 0, coeff_modulus_size_ |-> 0,
     scale_ |-> 1, correction_factor_ |-> 1, data_ |-> 0]

Fresh == [m |-> EmptyCt, b |-> NoBuf]

BufOf(c) == IF cts[c].data_ = 0 THEN NoBuf ELSE heap[cts[c].data_]

View(c) == [m |-> cts[c], b |-> BufOf(c)]

Fail(x, why) == [m |-> x.m, b |-> x.b, outcome |-> why]

\* ------------------------------------------------------- read accessors
\* fault variant of sizeCapacity: counts the logical words, not the allocation
sizeCapacityOfSize(x) ==
    LET poly_uint64_count ==
            x.m.poly_modulus_degree_ * x.m.coeff_modulus_size_
    IN  IF poly_uint64_count # 0
        THEN x.b.size \div poly_uint64_count
        ELSE 0

\* Ciphertext::sizeCapacity
sizeCapacity(x) ==
    LET poly_uint64_count ==
            x.m.poly_modulus_degree_ * x.m.coeff_modulus_size_
    IN  IF poly_uint64_count # 0
        THEN Len(x.b.words) \div poly_uint64_count
        ELSE 0

\* fault variant of data(std::size_t): the bounds check comes first
dataPolyBoundsFirst(x, poly_index) ==
    LET poly_uint64_count ==
            mul_safe(x.m.poly_modulus_degree_, x.m.coeff_modulus_size_)
    IN  IF poly_index >= x.m.size_
        THEN [outcome |-> "OutOfRange", off |-> 0]
        ELSE IF poly_uint64_count = 0
        THEN [outcome |-> "null", off |-> 0]
        ELSE [outcome |-> "ok", off |-> poly_index * poly_uint64_count]

\* fault variant of data(std::size_t): the index is checked against the
\* capacity instead of the size
dataPolyByCapacity(x, poly_index) ==
    LET poly_uint64_count ==
            mul_safe(x.m.poly_modulus_degree_, x.m.coeff_modulus_size_)
    IN  IF poly_uint64_count = 0
        THEN [outcome |-> "null", off |-> 0]
        ELSE IF poly_index >= Len(x.b.words) \div poly_uint64_count
        THEN [outcome |-> "OutOfRange", off |-> 0]
        ELSE [outcome |-> "ok", off |-> poly_index * poly_uint64_count]

\* fault variant of data(std::size_t): the bound check is off by one
dataPolyOffByOne(x, poly_index) ==
    LET poly_uint64_count ==
            mul_safe(x.m.poly_modulus_degree_, x.m.coeff_modulus_size_)
    IN  IF poly_uint64_count = 0
        THEN [outcome |-> "null", off |-> 0]
        ELSE IF poly_index > x.m.size_
        THEN [outcome |-> "OutOfRange", off |-> 0]
        ELSE [outcome |-> "ok", off |-> poly_index * poly_uint64_count]

\* Ciphertext::data(std::size_t): the offset of a polynomial in the buffer
dataPoly(x, poly_index) ==
    LET poly_uint64_count ==
            mul_safe(x.m.poly_modulus_degree_, x.m.coeff_modulus_size_)
    IN  IF poly_uint64_count = 0
        THEN [outcome |-> "null", off |-> 0]
        ELSE IF poly_index >= x.m.size_
        THEN [outcome |-> "OutOfRange", off |-> 0]
        ELSE [outcome |-> "ok", off |-> poly_index * poly_uint64_count]

\* Ciphertext::operator[] through HostDynamicArray::at
at(x, coeff_index) ==
    IF coeff_index >= x.b.size
    THEN [outcome |-> "OutOfRange", val |-> 0]
    ELSE [outcome |-> "ok", val |-> x.b.words[coeff_index + 1]]

\* fault variant of isTransparent: the scan starts one word after data(1)
isTransparentSkipFirst(x) ==
    \/ x.b.size = 0
    \/ x.m.size_ < SEAL_CIPHERTEXT_SIZE_MIN
    \/ \A i \in (dataPoly(x, 1).off + 2) .. x.b.size : x.b.words[i] = 0

\* fault variant of isTransparent: the scan starts at polynomial 0
isTransparentFromStart(x) ==
    \/ x.b.size = 0
    \/ x.m.size_ < SEAL_CIPHERTEXT_SIZE_MIN
    \/ \A i \in (dataPoly(x, 0).off + 1) .. x.b.size : x.b.words[i] = 0

\* Ciphertext::isTransparent
isTransparent(x) ==
    \/ x.b.size = 0
    \/ x.m.size_ < SEAL_CIPHERTEXT_SIZE_MIN
    \/ \A i \in (dataPoly(x, 1).off + 1) .. x.b.size : x.b.words[i] = 0

\* fault variant of hasSeedMarker: the word read is the first of polynomial 0
hasSeedMarkerFirstPoly(x) ==
    IF x.b.size # 0 /\ x.m.size_ = 2
    THEN x.b.words[dataPoly(x, 0).off + 1] = SeedMarker
    ELSE FALSE

\* fault variant of hasSeedMarker: the size is not required to be 2
hasSeedMarkerAnySize(x) ==
    IF x.b.size # 0 /\ x.m.size_ >= 2
    THEN x.b.words[dataPoly(x, 1).off + 1] = SeedMarker
    ELSE FALSE

\* Ciphertext::hasSeedMarker
hasSeedMarker(x) ==
    IF x.b.size # 0 /\ x.m.size_ = 2
    THEN x.b.words[dataPoly(x, 1).off + 1] = SeedMarker
    ELSE FALSE

\* ------------------------------------------------ reserve / resize / release
\* fault variant of reserveInternal: a different (N, K) is accepted while the
\* container holds polynomials
reserveInternalReinterpret(x, size_capacity, poly_modulus_degree, coeff_modulus_size) ==
    LET cnt == poly_modulus_degree * coeff_modulus_size
        new_data_capacity == mul_safe(size_capacity, cnt)
    IN  IF size_capacity < SEAL_CIPHERTEXT_SIZE_MIN
        THEN Fail(x, "InvalidArgument")
        ELSE IF cnt = 0
        THEN Fail(x, "LogicError")
        ELSE IF new_data_capacity = -1
        THEN Fail(x, "Overflow")
        ELSE [m |-> [x.m EXCEPT
                        !.poly_modulus_degree_ = poly_modulus_degree,
                        !.coeff_modulus_size_ = coeff_modulus_size],
              b |-> bufReserve(x.b, new_data_capacity),
              outcome |-> "ok"]

\* Ciphertext::reserveInternal
reserveInternal(x, size_capacity, poly_modulus_degree, coeff_modulus_size) ==
    LET cnt == poly_modulus_degree * coeff_modulus_size
        new_data_capacity == mul_safe(size_capacity, cnt)
    IN  IF size_capacity < SEAL_CIPHERTEXT_SIZE_MIN
        THEN Fail(x, "InvalidArgument")
        ELSE IF cnt = 0
        THEN Fail(x, "LogicError")
        ELSE IF new_data_capacity = -1
        THEN Fail(x, "Overflow")
        ELSE IF /\ x.m.size_ > 0
                /\ \/ x.m.poly_modulus_degree_ # poly_modulus_degree
                   \/ x.m.coeff_modulus_size_ # coeff_modulus_size
        THEN Fail(x, "InvalidArgument")
        ELSE [m |-> [x.m EXCEPT
                        !.poly_modulus_degree_ = poly_modulus_degree,
                        !.coeff_modulus_size_ = coeff_modulus_size],
              b |-> bufReserve(x.b, new_data_capacity),
              outcome |-> "ok"]

\* Ciphertext::reserve(context, parms_id, size_capacity)
reserve(x, parms_id, size_capacity) ==
    IF parms_id \notin KnownIds
    THEN Fail(x, "InvalidArgument")
    ELSE LET parms == contextData(parms_id)
             r == reserveInternal(x, size_capacity,
                      parms.poly_modulus_degree, Len(parms.coeff_modulus))
         IN  IF r.outcome = "ok"
             THEN [r EXCEPT !.m.parms_id_ = parms_id]
             ELSE r

\* fault variant of reserve(context, size_capacity): parms_id_ is stored
\* before the call that validates the arguments
reserveCtxEager(x, size_capacity) ==
    reserve([x EXCEPT !.m.parms_id_ = firstParmsID],
        firstParmsID, size_capacity)

\* Ciphertext::reserve(context, size_capacity)
reserveCtx(x, size_capacity) == reserve(x, firstParmsID, size_capacity)

\* Ciphertext::reserve(size_capacity)
reserveCur(x, size_capacity) ==
    reserveInternal(x, size_capacity,
        x.m.poly_modulus_degree_, x.m.coeff_modulus_size_)

\* Ciphertext::resizeInternal
resizeInternal(x, size, poly_modulus_degree, coeff_modulus_size) ==
    LET cnt == poly_modulus_degree * coeff_modulus_size
        new_data_size == mul_safe(size, cnt)
    IN  IF size < SEAL_CIPHERTEXT_SIZE_MIN
        THEN Fail(x, "InvalidArgument")
        ELSE IF cnt = 0
        THEN Fail(x, "LogicError")
        ELSE IF new_data_size = -1
        THEN Fail(x, "InvalidArgument")
        ELSE IF /\ x.m.size_ > 0
                /\ \/ x.m.poly_modulus_degree_ # poly_modulus_degree
                   \/ x.m.coeff_modulus_size_ # coeff_modulus_size
        THEN Fail(x, "InvalidArgument")
        ELSE [m |-> [x.m EXCEPT
                        !.size_ = size,
                        !.poly_modulus_degree_ = poly_modulus_degree,
                        !.coeff_modulus_size_ = coeff_modulus_size],
              b |-> bufResize(bufReserve(x.b, new_data_size), new_data_size),
              outcome |-> "ok"]

\* Ciphertext::resize(context, parms_id, size)
resize(x, parms_id, size) ==
    IF parms_id \notin KnownIds
    THEN Fail(x, "InvalidArgument")
    ELSE LET parms == contextData(parms_id)
             r == resizeInternal(x, size,
                      parms.poly_modulus_degree, Len(parms.coeff_modulus))
         IN  IF r.outcome = "ok"
             THEN [r EXCEPT !.m.parms_id_ = parms_id]
             ELSE r

\* Ciphertext::resize(context, size)
resizeCtx(x, size) == resize(x, firstParmsID, size)

\* fault variant of resize(size): the argument is taken as an increment
resizeCurRelative(x, size) ==
    resizeInternal(x, x.m.size_ + size,
        x.m.poly_modulus_degree_, x.m.coeff_modulus_size_)

\* fault variant of resize(size): a size within the capacity is stored
\* without going through resizeInternal
resizeCurFastPath(x, size) ==
    IF size <= sizeCapacity(x)
    THEN [m |-> [x.m EXCEPT !.size_ = size],
          b |-> bufResize(x.b,
                    size * x.m.poly_modulus_degree_ * x.m.coeff_modulus_size_),
          outcome |-> "ok"]
    ELSE resizeInternal(x, size,
             x.m.poly_modulus_degree_, x.m.coeff_modulus_size_)

\* Ciphertext::resize(size)
resizeCur(x, size) ==
    resizeInternal(x, size,
        x.m.poly_modulus_degree_, x.m.coeff_modulus_size_)

\* fault variant of release: scale_ is not reset
releaseKeepsScale(x) ==
    [m |-> [x.m EXCEPT
               !.parms_id_ = parmsIDZero,
               !.is_ntt_form_ = FALSE,
               !.size_ = 0,
               !.poly_modulus_degree_ = 0,
               !.coeff_modulus_size_ = 0,
               !.correction_factor_ = 1],
     b |-> NoBuf,
     outcome |-> "ok"]

\* fault variant of release: is_ntt_form_ is not reset
releaseKeepsNttForm(x) ==
    [m |-> [x.m EXCEPT
               !.parms_id_ = parmsIDZero,
               !.size_ = 0,
               !.poly_modulus_degree_ = 0,
               !.coeff_modulus_size_ = 0,
               !.scale_ = 1,
               !.correction_factor_ = 1],
     b |-> NoBuf,
     outcome |-> "ok"]

\* Ciphertext::release
release(x) ==
    [m |-> [x.m EXCEPT
               !.parms_id_ = parmsIDZero,
               !.is_ntt_form_ = FALSE,
               !.size_ = 0,
               !.poly_modulus_degree_ = 0,
               !.coeff_modulus_size_ = 0,
               !.scale_ = 1,
               !.correction_factor_ = 1],
     b |-> NoBuf,
     outcome |-> "ok"]

\* ----------------------------------------------------------- expandSeed
\* fault variant of sample: the raw generator word, not reduced modulo q
sampleRaw(seed, q, j, i) == (SeedMarker - seed * 3 - j * 2 - i) % (SizeMax + 1)

\* the uniform sampler re-seeded from prng_info: residue j, coefficient i
sample(seed, q, j, i) == (seed * 3 + j * 2 + i + 1) % q

\* fault variant of expandSeed: the generator is not re-seeded, what the
\* caller did before shifts its stream
expandSeedCarry(x, prng_info) ==
    IF ~hasSeedMarker(x)
    THEN Fail(x, "LogicError")
    ELSE IF \/ x.m.parms_id_ \notin KnownIds
            \/ prng_info.parms_id # x.m.parms_id_
    THEN Fail(x, "InvalidArgument")
    ELSE LET parms == contextData(x.m.parms_id_)
             N == parms.poly_modulus_degree
             K == Len(parms.coeff_modulus)
             off == dataPoly(x, 1).off
         IN  IF N # x.m.poly_modulus_degree_ \/ K # x.m.coeff_modulus_size_
             THEN Fail(x, "InvalidArgument")
             ELSE [m |-> x.m,
                   b |-> [x.b EXCEPT !.words =
                            [w \in 1 .. Len(x.b.words) |->
                                IF w > off /\ w <= off + N * K
                                THEN sample(prng_info.seed + writes,
                                         parms.coeff_modulus[((w - off - 1) \div N) + 1],
                                         (w - off - 1) \div N,
                                         (w - off - 1) % N)
                                ELSE x.b.words[w]]],
                   outcome |-> "ok"]

\* Ciphertext::expandSeed
expandSeed(x, prng_info) ==
    IF ~hasSeedMarker(x)
    THEN Fail(x, "LogicError")
    ELSE IF \/ x.m.parms_id_ \notin KnownIds
            \/ prng_info.parms_id # x.m.parms_id_
    THEN Fail(x, "InvalidArgument")
    ELSE LET parms == contextData(x.m.parms_id_)
             N == parms.poly_modulus_degree
             K == Len(parms.coeff_modulus)
             off == dataPoly(x, 1).off
         IN  IF N # x.m.poly_modulus_degree_ \/ K # x.m.coeff_modulus_size_
             THEN Fail(x, "InvalidArgument")
             ELSE [m |-> x.m,
                   b |-> [x.b EXCEPT !.words =
                            [w \in 1 .. Len(x.b.words) |->
                                IF w > off /\ w <= off + N * K
                                THEN sample(prng_info.seed,
                                         parms.coeff_modulus[((w - off - 1) \div N) + 1],
                                         (w - off - 1) \div N,
                                         (w - off - 1) % N)
                                ELSE x.b.words[w]]],
                   outcome |-> "ok"]

\* --------------------------------------------------------------- the heap
\* heap[i] is the allocation made for slot i; data_ names the allocation a
\* container's HostDynamicArray points to (0: none)

NoLabel(op) ==
    [op |-> op, c |-> 0, outcome |-> "ok", arg |-> 0, prev |-> 0, rel |-> FALSE,
     again |-> FALSE]

\* no exception is propagating: the caller is free to make the next call
Ready == last.outcome = "ok"

\* what the caller saw of a call: the operation, the container (0 when the
\* call threw), the outcome, the capacity or size asked for (of a call that
\* returned, or of a resize that threw), the size before a resize or release
\* that returned, and whether a reserve that returned directly follows
\* release() of the same container
\* (again: a resize that returned directly follows a resize of the same
\* container to the same size)
Label(op, c, outcome, arg) ==
    [op |-> op,
     c |-> IF outcome = "ok" THEN c ELSE 0,
     outcome |-> outcome,
     arg |-> IF outcome = "ok" \/ op = "resize" THEN arg ELSE 0,
     prev |-> IF outcome = "ok" /\ op \in {"resize", "release"}
              THEN cts[c].size_ ELSE 0,
     rel |-> /\ outcome = "ok"
             /\ op = "reserve"
             /\ last.op = "release"
             /\ last.c = c,
     again |-> /\ outcome = "ok"
               /\ op = "resize"
               /\ last.op = "resize"
               /\ last.c = c
               /\ last.arg = arg]

\* container c takes the result r of an operation on View(c)
Commit(c, r, op, arg) ==
    LET old == cts[c].data_
        id == IF Len(r.b.words) = 0 THEN 0
              ELSE IF old # 0 THEN old ELSE c
    IN  /\ Ready
        /\ cts' = [cts EXCEPT ![c] = [r.m EXCEPT !.data_ = id]]
        /\ heap' = IF id # 0 THEN [heap EXCEPT ![id] = r.b]
                   ELSE IF old # 0 THEN [heap EXCEPT ![old] = NoBuf]
                   ELSE heap
        /\ last' = Label(op, c, r.outcome, arg)

\* ---------------------------------------------------------------- actions
Reserve(c, parms_id, size_capacity) ==
    /\ Commit(c, reserve(View(c), parms_id, size_capacity), "reserve", size_capacity)
    /\ UNCHANGED writes

ReserveCtx(c, size_capacity) ==
    /\ Commit(c, reserveCtx(View(c), size_capacity), "reserve", size_capacity)
    /\ UNCHANGED writes

ReserveCur(c, size_capacity) ==
    /\ Commit(c, reserveCur(View(c), size_capacity), "reserve", size_capacity)
    /\ UNCHANGED writes

Resize(c, parms_id, size) ==
    /\ Commit(c, resize(View(c), parms_id, size), "resize", size)
    /\ UNCHANGED writes

ResizeCtx(c, size) ==
    /\ Commit(c, resizeCtx(View(c), size), "resize", size)
    /\ UNCHANGED writes

ResizeCur(c, size) ==
    /\ Commit(c, resizeCur(View(c), size), "resize", size)
    /\ UNCHANGED writes

Release(c) ==
    /\ Commit(c, release(View(c)), "release", 0)
    /\ UNCHANGED writes

\* Ciphertext(context), Ciphertext(context, parms_id),
\* Ciphertext(context, parms_id, size_capacity) into an unused slot
ConstructCtx(c) ==
    /\ View(c) = Fresh
    /\ Commit(c, reserveCtx(Fresh, 2), "construct", 2)
    /\ UNCHANGED writes

ConstructParms(c, parms_id) ==
    /\ View(c) = Fresh
    /\ Commit(c, reserve(Fresh, parms_id, 2), "construct", 2)
    /\ UNCHANGED writes

ConstructCap(c, parms_id, size_capacity) ==
    /\ View(c) = Fresh
    /\ Commit(c, reserve(Fresh, parms_id, size_capacity), "construct", size_capacity)
    /\ UNCHANGED writes

ExpandSeed(c, prng_info) ==
    /\ Commit(c, expandSeed(View(c), prng_info), "expandSeed", prng_info.seed)
    /\ UNCHANGED writes

\* fault variant of copyTarget: the copy points to the source's allocation
copyTargetShared(dst, src) == cts[src].data_

\* HostDynamicArray copy: the allocation the copy made into dst points to,
\* its own and never the source's
copyTarget(dst, src) == IF cts[src].data_ = 0 THEN 0 ELSE dst

\* the members of a moved-from Ciphertext: the defaulted move takes the
\* buffer out of data_ and copies the scalar members
movedFrom(m) == [m EXCEPT !.data_ = 0]

CopyStep(dst, src, op) ==
    LET old == cts[dst].data_
        id == copyTarget(dst, src)
        freed == IF old # 0 /\ old # id
                 THEN [heap EXCEPT ![old] = NoBuf] ELSE heap
    IN  /\ Ready
        /\ cts' = [cts EXCEPT ![dst] = [cts[src] EXCEPT !.data_ = id]]
        /\ heap' = IF id # 0 THEN [freed EXCEPT ![id] = BufOf(src)] ELSE freed
        /\ last' = Label(op, dst, "ok", 0)
        /\ UNCHANGED writes

\* the buffer changes owner: it becomes the allocation of slot dst, whose
\* previous allocation is freed
MoveStep(dst, src, op) ==
    /\ Ready
    /\ cts' = [cts EXCEPT
                  ![dst] = [cts[src] EXCEPT
                               !.data_ = IF cts[src].data_ = 0 THEN 0 ELSE dst],
                  ![src] = movedFrom(cts[src])]
    /\ heap' = [heap EXCEPT ![dst] = BufOf(src), ![src] = NoBuf]
    /\ last' = Label(op, dst, "ok", 0)
    /\ UNCHANGED writes

\* Ciphertext(const Ciphertext &)
CopyConstruct(dst, src) ==
    /\ dst # src
    /\ View(dst) = Fresh
    /\ CopyStep(dst, src, "copy")

\* Ciphertext::operator=(const Ciphertext &)
CopyAssign(dst, src) ==
    /\ dst # src
    /\ CopyStep(dst, src, "copy")

\* Ciphertext(Ciphertext &&)
MoveConstruct(dst, src) ==
    /\ dst # src
    /\ View(dst) = Fresh
    /\ MoveStep(dst, src, "move")

\* Ciphertext::operator=(Ciphertext &&)
MoveAssign(dst, src) ==
    /\ dst # src
    /\ MoveStep(dst, src, "move")

\* ct[coeff_index] = 1, for an index operator[] accepts
WriteAt(c, coeff_index) ==
    /\ Ready
    /\ writes < MaxWrites
    /\ at(View(c), coeff_index).outcome = "ok"
    /\ heap' = [heap EXCEPT ![cts[c].data_].words[coeff_index + 1] = 1]
    /\ writes' = writes + 1
    /\ last' = Label("write", c, "ok", 0)
    /\ UNCHANGED cts

\* ct.data(poly_index)[0] = 0xFFFFFFFFFFFFFFFF, for an index data() accepts
WritePoly(c, poly_index) ==
    LET r == dataPoly(View(c), poly_index)
    IN  /\ Ready
        /\ writes < MaxWrites
        /\ r.outcome = "ok"
        /\ r.off < BufOf(c).size
        /\ heap' = [heap EXCEPT ![cts[c].data_].words[r.off + 1] = SeedMarker]
        /\ writes' = writes + 1
        /\ last' = Label("write", c, "ok", 0)
        /\ UNCHANGED cts

\* ct.isNttForm() = true
SetNttForm(c) ==
    /\ Ready
    /\ writes < MaxWrites
    /\ cts' = [cts EXCEPT ![c].is_ntt_form_ = TRUE]
    /\ writes' = writes + 1
    /\ last' = Label("set", c, "ok", 0)
    /\ UNCHANGED heap

\* ct.parmsID() = parms_id
SetParmsID(c, parms_id) ==
    /\ Ready
    /\ writes < MaxWrites
    /\ cts' = [cts EXCEPT ![c].parms_id_ = parms_id]
    /\ writes' = writes + 1
    /\ last' = Label("set", c, "ok", 0)
    /\ UNCHANGED heap

\* ct.scale() = 2.0
SetScale(c) ==
    /\ Ready
    /\ writes < MaxWrites
    /\ cts' = [cts EXCEPT ![c].scale_ = 2]
    /\ writes' = writes + 1
    /\ last' = Label("set", c, "ok", 0)
    /\ UNCHANGED heap

\* ct.correctionFactor() = 2
SetCorrectionFactor(c) ==
    /\ Ready
    /\ writes < MaxWrites
    /\ cts' = [cts EXCEPT ![c].correction_factor_ = 2]
    /\ writes' = writes + 1
    /\ last' = Label("set", c, "ok", 0)
    /\ UNCHANGED heap

\* the caller catches the exception a failed call threw
Handle ==
    /\ ~Ready
    /\ last' = NoLabel("handled")
    /\ UNCHANGED <<cts, heap, writes>>

Init ==
    /\ cts = [c \in Cts |-> EmptyCt]
    /\ heap = [i \in BufIds |-> NoBuf]
    /\ writes = 0
    /\ last = NoLabel("init")

Next ==
    \/ \E c \in Cts, a \in ReserveArgs : Reserve(c, a[1], a[2])
    \/ \E c \in Cts, n \in CtxArgs : ReserveCtx(c, n)
    \/ \E c \in Cts, n \in CurArgs : ReserveCur(c, n)
    \/ \E c \in Cts, a \in ResizeArgs : Resize(c, a[1], a[2])
    \/ \E c \in Cts, n \in CtxArgs : ResizeCtx(c, n)
    \/ \E c \in Cts, n \in CurArgs : ResizeCur(c, n)
    \/ \E c \in Cts : Release(c)
    \/ \E c \in Cts : ConstructCtx(c)
    \/ \E c \in Cts, p \in ArgIds : ConstructParms(c, p)
    \/ \E c \in Cts, a \in ReserveArgs : ConstructCap(c, a[1], a[2])
    \/ \E dst \in Cts, src \in Cts : CopyConstruct(dst, src)
    \/ \E dst \in Cts, src \in Cts : CopyAssign(dst, src)
    \/ \E dst \in Cts, src \in Cts : MoveConstruct(dst, src)
    \/ \E dst \in Cts, src \in Cts : MoveAssign(dst, src)
    \/ \E c \in Writers, i \in CoeffIdx : WriteAt(c, i)
    \/ \E c \in Writers, p \in PolyIdx : WritePoly(c, p)
    \/ \E c \in Writers : SetNttForm(c)
    \/ \E c \in Writers, p \in KnownIds : SetParmsID(c, p)
    \/ \E c \in Writers : SetScale(c)
    \/ \E c \in Writers : SetCorrectionFactor(c)
    \/ \E c \in Cts, p \in KnownIds, s \in Seeds :
           ExpandSeed(c, [parms_id |-> p, seed |-> s])
    \/ Handle

Spec == Init /\ [][Next]_vars
\* ================================================================ claims
PolyCount(m) == m.poly_modulus_degree_ * m.coeff_modulus_size_

ParmsCount(parms_id) ==
    contextData(parms_id).poly_modulus_degree
        * Len(contextData(parms_id).coeff_modulus)

\* container c as the step leaves it
ViewNext(c) ==
    [m |-> cts'[c],
     b |-> IF cts'[c].data_ = 0 THEN NoBuf ELSE heap'[cts'[c].data_]]

Observable(x) ==
    [size |-> x.m.size_, capacity |-> sizeCapacity(x),
     poly_modulus_degree |-> x.m.poly_modulus_degree_,
     coeff_modulus_size |-> x.m.coeff_modulus_size_,
     parms_id |-> x.m.parms_id_, scale |-> x.m.scale_,
     correction_factor |-> x.m.correction_factor_,
     is_ntt_form |-> x.m.is_ntt_form_]

\* C1: in every reachable state sizeCapacity() >= size(), and the backing
\* buffer holds capacity * degree * modulus_count allocated words.
C1_CapacityCoversSize ==
    \A c \in Cts :
        /\ sizeCapacity(View(c)) >= cts[c].size_
        /\ Len(BufOf(c).words) >= sizeCapacity(View(c)) * PolyCount(cts[c])

\* C2: in every reachable state the logical buffer length is
\* size * degree * modulus_count, and polynomial p < size starts exactly
\* p * degree * modulus_count words past the start of the buffer.
C2_BufferLayout ==
    \A c \in Cts :
        /\ BufOf(c).size = cts[c].size_ * PolyCount(cts[c])
        /\ \A p \in 0 .. (cts[c].size_ - 1) :
               dataPoly(View(c), p) =
                   [outcome |-> "ok", off |-> p * PolyCount(cts[c])]

\* C3: a reserve or resize call that fails leaves every field of every
\* container, and every buffer, exactly as it was before the call.
C3_FailedCallChangesNothing ==
    [][(last'.op \in {"reserve", "resize"} /\ last'.outcome # "ok")
          => (cts' = cts /\ heap' = heap)]_vars

C3_Witness ==
    /\ last.op \in {"reserve", "resize"}
    /\ last.outcome # "ok"
    /\ \A c \in Cts : cts[c].size_ >= 2 /\ BufOf(c).size > 0
    /\ cts[1].scale_ = 2

C5_ReleaseYieldsEmpty ==
    /\ [](\A c \in Cts : release(View(c)).outcome = "ok")
    /\ [][last'.op = "release"
             => /\ last'.outcome = "ok"
                /\ cts'[last'.c] = EmptyCt
                /\ ViewNext(last'.c) = Fresh
                /\ sizeCapacity(ViewNext(last'.c)) = 0
                /\ (last.op = "release" /\ last.c = last'.c)
                       => (cts' = cts /\ heap' = heap)]_vars

C5_Witness ==
    /\ last.op = "release"
    /\ last.prev >= 2
    /\ cts[last.c] = EmptyCt
    /\ BufOf(last.c) = NoBuf

\* C6: after release(), reserve(context, parms_id, c) gives the same
\* outcome and the same observable state as the same call on a freshly
\* default-constructed container.
C6_ReserveAfterReleaseAsFresh ==
    [][\A c \in Cts, a \in ReserveArgs :
          (last.op = "release" /\ last.c = c /\ Reserve(c, a[1], a[2]))
              => LET f == reserve(Fresh, a[1], a[2])
                 IN  /\ last'.outcome = f.outcome
                     /\ Observable(ViewNext(c)) = Observable(f)]_vars

C6_Witness ==
    /\ last.op = "reserve"
    /\ last.outcome = "ok"
    /\ last.rel
    /\ sizeCapacity(View(last.c)) >= last.arg

\* C7: for a known parameter set and a capacity c >= 2 whose size
\* computation does not overflow, after reserve returns sizeCapacity() >= c
\* and degree, modulus count and parms_id are those of the requested set.
C7_ReserveGivesCapacity ==
    [][\A c \in Cts, a \in ReserveArgs :
          /\ last'.op \in {"reserve", "construct"}
          /\ last'.outcome = "ok"
          /\ last'.c = c
          /\ last'.arg = a[2]
          /\ (Reserve(c, a[1], a[2]) \/ ConstructCap(c, a[1], a[2]))
          => /\ sizeCapacity(ViewNext(c)) >= a[2]
             /\ cts'[c].parms_id_ = a[1]
             /\ cts'[c].poly_modulus_degree_ =
                    contextData(a[1]).poly_modulus_degree
             /\ cts'[c].coeff_modulus_size_ =
                    Len(contextData(a[1]).coeff_modulus)]_vars

C7_Witness ==
    /\ last.op = "reserve"
    /\ last.outcome = "ok"
    /\ last.arg = MaxCap
    /\ sizeCapacity(View(last.c)) >= MaxCap
    /\ cts[last.c].parms_id_ = 2

\* C8: resize with a size below 2 fails with InvalidArgument in every
\* state, and in every reachable state size() is 0 or at least 2.
C8_SizeZeroOrAtLeastTwo ==
    \A c \in Cts :
        /\ cts[c].size_ = 0 \/ cts[c].size_ >= 2
        /\ \A n \in {0, 1} :
               /\ \A p \in ArgIds :
                      resize(View(c), p, n).outcome = "InvalidArgument"
               /\ resizeCtx(View(c), n).outcome = "InvalidArgument"
               /\ resizeCur(View(c), n).outcome = "InvalidArgument"

C8_Witness ==
    /\ last.op = "resize"
    /\ last.outcome = "InvalidArgument"
    /\ last.arg < 2
    /\ \A c \in Cts : cts[c].size_ >= 2

\* C9: growing by resize from size s1 to s2 > s1 leaves every coefficient
\* of the first s1 polynomials unchanged and makes every coefficient of
\* polynomials s1 .. s2-1 zero, with or without a reallocation.
C9_GrowKeepsAndZeroes ==
    [][(last'.op = "resize" /\ last'.outcome = "ok"
            /\ cts'[last'.c].size_ > cts[last'.c].size_)
          => LET c == last'.c
                 old == BufOf(c)
                 new == ViewNext(c).b
                 kept == cts[c].size_ * PolyCount(cts'[c])
             IN  /\ new.size = cts'[c].size_ * PolyCount(cts'[c])
                 /\ \A i \in 1 .. Min(kept, old.size) :
                        new.words[i] = old.words[i]
                 /\ \A i \in (Min(kept, old.size) + 1) .. new.size :
                        new.words[i] = 0]_vars

C9_Witness ==
    /\ last.op = "resize"
    /\ last.outcome = "ok"
    /\ last.prev = 2
    /\ cts[last.c].size_ = 3
    /\ \E i \in 1 .. (2 * PolyCount(cts[last.c])) : BufOf(last.c).words[i] # 0

\* C10: shrinking by resize to new_size < size leaves the first new_size
\* polynomials unchanged, does not reduce the capacity, and makes every
\* flat index >= new_size * degree * modulus_count and every polynomial
\* index >= new_size unreachable through the checked accessors.
C10_ShrinkKeepsPrefix ==
    [][(last'.op = "resize" /\ last'.outcome = "ok"
            /\ cts'[last'.c].size_ < cts[last'.c].size_)
          => LET c == last'.c
                 old == BufOf(c)
                 x == ViewNext(c)
                 kept == cts'[c].size_ * PolyCount(cts'[c])
             IN  /\ \A i \in 1 .. Min(kept, old.size) :
                        x.b.words[i] = old.words[i]
                 /\ sizeCapacity(x) >= sizeCapacity(View(c))
                 /\ \A i \in CoeffIdx :
                        i >= kept => at(x, i).outcome = "OutOfRange"
                 /\ \A p \in PolyIdx :
                        p >= cts'[c].size_
                            => dataPoly(x, p).outcome = "OutOfRange"]_vars

C10_Witness ==
    /\ last.op = "resize"
    /\ last.outcome = "ok"
    /\ last.prev = 3
    /\ cts[last.c].size_ = 2
    /\ BufOf(last.c).size = 2 * PolyCount(cts[last.c])
    /\ \E i \in (BufOf(last.c).size + 1) .. Len(BufOf(last.c).words) :
           BufOf(last.c).words[i] # 0
\* C11: a resize to the size the container already has, made directly after
\* a resize to that size with the same parameter set, reallocates nothing:
\* capacity, every coefficient and all metadata are unchanged.
C11_ResizeSameSizeIdempotent ==
    [][(/\ last.op = "resize"
        /\ last.outcome = "ok"
        /\ last'.op = "resize"
        /\ last'.outcome = "ok"
        /\ last'.c = last.c
        /\ last'.arg = last.arg
        /\ cts'[last.c].parms_id_ = cts[last.c].parms_id_)
          => /\ cts' = cts
             /\ heap' = heap
             /\ sizeCapacity(ViewNext(last.c)) = sizeCapacity(View(last.c))]_vars

C11_Witness ==
    /\ last.op = "resize"
    /\ last.outcome = "ok"
    /\ last.again
    /\ last.prev = last.arg
    /\ cts[last.c].scale_ = 2
    /\ sizeCapacity(View(last.c)) > cts[last.c].size_
\* the words of container c that the step changed
Changed(c) ==
    {i \in 1 .. Len(BufOf(c).words) :
        i > Len(ViewNext(c).b.words) \/ ViewNext(c).b.words[i] # BufOf(c).words[i]}

\* C12: isTransparent() is true exactly when the buffer is empty, or
\* size < 2, or every word from the start of polynomial 1 to the end of the
\* logical buffer is zero; it is true right after a fresh container is
\* resized to 2, a nonzero write at polynomial index >= 1 makes it false,
\* and a write inside polynomial 0 does not change it.
C12_TransparentIffTailZero ==
    /\ [](\A c \in Cts :
              isTransparent(View(c)) <=>
                  \/ BufOf(c).size = 0
                  \/ cts[c].size_ < 2
                  \/ \A i \in (PolyCount(cts[c]) + 1) .. BufOf(c).size :
                         BufOf(c).words[i] = 0)
    /\ [][(last'.op = "resize" /\ last'.outcome = "ok" /\ last'.arg = 2
              /\ View(last'.c) = Fresh)
             => isTransparent(ViewNext(last'.c))]_vars
    /\ [][last'.op = "write"
             => LET c == last'.c
                    n == PolyCount(cts[c])
                IN  /\ (\E i \in Changed(c) : i > n)
                           => ~isTransparent(ViewNext(c))
                    /\ (\A i \in Changed(c) : i <= n)
                           => (isTransparent(ViewNext(c))
                                   <=> isTransparent(View(c)))]_vars

C12_Witness ==
    /\ last.op = "write"
    /\ cts[last.c].size_ >= 2
    /\ ~isTransparent(View(last.c))
    /\ \A i \in 1 .. PolyCount(cts[last.c]) : BufOf(last.c).words[i] = 0
C14_FlatIndexBound ==
    \A c \in Cts, i \in CoeffIdx :
        at(View(c), i).outcome = "OutOfRange"
            <=> i >= cts[c].size_ * PolyCount(cts[c])
\* no seed marker: Empty, Reserved, size other than 2, or size 2 whose
\* polynomial 1 does not start with the all-ones word
NoMarker(x) ==
    \/ x.b.size = 0
    \/ x.m.size_ # 2
    \/ x.b.words[PolyCount(x.m) + 1] # SeedMarker

\* C15: expandSeed on a container without the seed marker (Empty,
\* Reserved, size > 2, or size 2 without the sentinel) fails with LogicError
\* and leaves the container unchanged.
C15_ExpandWithoutMarkerRejected ==
    /\ [](\A c \in Cts, p \in KnownIds, s \in Seeds :
              NoMarker(View(c))
                  => LET r == expandSeed(View(c), [parms_id |-> p, seed |-> s])
                     IN  /\ r.outcome = "LogicError"
                         /\ r.m = cts[c]
                         /\ r.b = BufOf(c))
    /\ [][(last'.op = "expandSeed" /\ last'.outcome = "LogicError")
             => (cts' = cts /\ heap' = heap)]_vars

C15_Witness ==
    /\ last.op = "expandSeed"
    /\ last.outcome = "LogicError"
    /\ cts[1].size_ = 3
    /\ BufOf(1).size = 3 * PolyCount(cts[1])
    /\ BufOf(1).words[PolyCount(cts[1]) + 1] = SeedMarker
    /\ cts[2].size_ = 2
    /\ BufOf(2).size > 0
    /\ NoMarker(View(2))
\* C16: a successful expandSeed on a Seed-Pending container leaves size 2,
\* polynomial 0 and all metadata unchanged, makes every word of polynomial 1
\* a residue below its modulus (never the all-ones word), so that
\* hasSeedMarker() is false afterwards and a second expandSeed is rejected.
C16_ExpandClearsMarker ==
    [][(last'.op = "expandSeed" /\ last'.outcome = "ok")
          => LET c == last'.c
                 y == ViewNext(c)
                 n == PolyCount(cts[c])
                 parms == contextData(cts[c].parms_id_)
             IN  /\ hasSeedMarker(View(c))
                 /\ ~hasSeedMarker(y)
                 /\ cts'[c] = cts[c]
                 /\ cts'[c].size_ = 2
                 /\ y.b.size = BufOf(c).size
                 /\ \A i \in 1 .. Len(y.b.words) :
                        (i <= n \/ i > 2 * n) => y.b.words[i] = BufOf(c).words[i]
                 /\ \A i \in (n + 1) .. (2 * n) :
                        /\ y.b.words[i] # SeedMarker
                        /\ y.b.words[i] <
                               parms.coeff_modulus[
                                   ((i - n - 1) \div parms.poly_modulus_degree) + 1]
                 /\ \A p \in KnownIds, s \in Seeds :
                        expandSeed(y, [parms_id |-> p, seed |-> s]).outcome
                            = "LogicError"]_vars

C16_Witness ==
    /\ last.op = "expandSeed"
    /\ last.outcome = "ok"
    /\ cts[last.c].size_ = 2
    /\ ~hasSeedMarker(View(last.c))
    /\ \E i \in (PolyCount(cts[last.c]) + 1) .. BufOf(last.c).size :
           BufOf(last.c).words[i] # 0
\* the words expandSeed regenerates for a parameter set and a seed, residue
\* by residue
Regenerated(parms_id, seed) ==
    LET parms == contextData(parms_id)
        N == parms.poly_modulus_degree
    IN  [w \in 1 .. N * Len(parms.coeff_modulus) |->
            sample(seed, parms.coeff_modulus[((w - 1) \div N) + 1],
                (w - 1) \div N, (w - 1) % N)]

\* polynomial 1 of a size-2 container
SecondPoly(x) ==
    SubSeq(x.b.words, PolyCount(x.m) + 1, 2 * PolyCount(x.m))

C18_MoveResetsSource ==
    [][\A dst \in Cts, src \in Cts :
          (/\ last'.op = "move"
           /\ last'.c = dst
           /\ (MoveConstruct(dst, src) \/ MoveAssign(dst, src)))
              => /\ ViewNext(dst).b = BufOf(src)
                 /\ [cts'[dst] EXCEPT !.data_ = 0] = [cts[src] EXCEPT !.data_ = 0]
                 /\ cts'[src] = EmptyCt
                 /\ ViewNext(src) = Fresh]_vars
\* C19: after copy construction or copy assignment the copy has the
\* metadata and the coefficients of the original and the original is
\* unchanged; no two containers ever share a buffer; and a write, resize,
\* reserve, release or expandSeed on one container leaves every other
\* container's members and coefficients unchanged.
C19_CopyIsIndependent ==
    /\ [](\A c \in Cts, d \in Cts :
              (c # d /\ cts[c].data_ # 0) => cts[c].data_ # cts[d].data_)
    /\ [][\A dst \in Cts, src \in Cts :
             (/\ last'.op = "copy"
              /\ last'.c = dst
              /\ (CopyConstruct(dst, src) \/ CopyAssign(dst, src)))
                 => /\ ViewNext(dst).b = BufOf(src)
                    /\ [cts'[dst] EXCEPT !.data_ = 0]
                           = [cts[src] EXCEPT !.data_ = 0]
                    /\ ViewNext(src) = View(src)
                    /\ cts'[src] = cts[src]]_vars
    /\ [][last'.op \notin {"copy", "move"}
             => \A d \in Cts :
                    d # last'.c => (cts'[d] = cts[d] /\ ViewNext(d) = View(d))]_vars

C19_Witness ==
    /\ last.op = "copy"
    /\ cts[1].size_ >= 2
    /\ [cts[1] EXCEPT !.data_ = 0] = [cts[2] EXCEPT !.data_ = 0]
    /\ cts[1].data_ # 0
    /\ cts[2].data_ # 0
    /\ cts[1].data_ # cts[2].data_
    /\ BufOf(1) = BufOf(2)
    /\ \E i \in 1 .. BufOf(1).size : BufOf(1).words[i] # 0
\* C20: in every reachable state, also after parms_id is written through
\* parmsID(), degree and modulus count are the (N, K) of the parameter set
\* parms_id names, or 0 when parms_id is the zero sentinel.
C20_DegreeMirrorsParmsID ==
    \A c \in Cts :
        IF cts[c].parms_id_ \in KnownIds
        THEN /\ cts[c].poly_modulus_degree_
                    = contextData(cts[c].parms_id_).poly_modulus_degree
             /\ cts[c].coeff_modulus_size_
                    = Len(contextData(cts[c].parms_id_).coeff_modulus)
        ELSE /\ cts[c].parms_id_ = parmsIDZero
             /\ cts[c].poly_modulus_degree_ = 0
             /\ cts[c].coeff_modulus_size_ = 0
\* the (N, K) of parameter set parms_id differ from those of container c
Mismatch(c, parms_id) ==
    \/ contextData(parms_id).poly_modulus_degree # cts[c].poly_modulus_degree_
    \/ Len(contextData(parms_id).coeff_modulus) # cts[c].coeff_modulus_size_

\* C21: reserve to a parameter set whose (N, K) differ from the container's
\* while size > 0 fails and leaves the container unchanged: the existing
\* coefficients are never reinterpreted under the new (N, K).
C21_MismatchedReserveRejected ==
    /\ [](\A c \in Cts, p \in KnownIds, n \in CapArgs :
              (cts[c].size_ > 0 /\ Mismatch(c, p))
                  => LET r == reserve(View(c), p, n)
                     IN  /\ r.outcome # "ok"
                         /\ r.m = cts[c]
                         /\ r.b = BufOf(c))
    /\ [][\A c \in Cts :
             (/\ last'.op = "reserve"
              /\ last'.outcome = "ok"
              /\ last'.c = c
              /\ cts[c].size_ > 0)
                 => /\ cts'[c].poly_modulus_degree_ = cts[c].poly_modulus_degree_
                    /\ cts'[c].coeff_modulus_size_ = cts[c].coeff_modulus_size_]_vars

C21_Witness ==
    /\ last.op = "reserve"
    /\ last.outcome = "InvalidArgument"
    /\ \A c \in Cts :
           /\ cts[c].size_ >= 2
           /\ BufOf(c).size > 0
           /\ cts[c].parms_id_ = 1
           /\ Mismatch(c, 2)
    /\ \E i \in 1 .. BufOf(1).size : BufOf(1).words[i] # 0
\* C22: a reserve that returns, with a capacity >= size, leaves size and
\* every logical coefficient unchanged, whether or not it reallocates, and
\* leaves scale, correction factor and the transform flag unchanged.
C22_ReserveKeepsContent ==
    [][(/\ last'.op = "reserve"
        /\ last'.outcome = "ok"
        /\ last'.arg >= cts[last'.c].size_)
          => LET c == last'.c
                 y == ViewNext(c)
             IN  /\ cts'[c].size_ = cts[c].size_
                 /\ cts'[c].scale_ = cts[c].scale_
                 /\ cts'[c].correction_factor_ = cts[c].correction_factor_
                 /\ cts'[c].is_ntt_form_ = cts[c].is_ntt_form_
                 /\ y.b.size = BufOf(c).size
                 /\ \A i \in 1 .. BufOf(c).size :
                        y.b.words[i] = BufOf(c).words[i]]_vars

C22_Witness ==
    /\ last.op = "reserve"
    /\ last.outcome = "ok"
    /\ last.arg = 3
    /\ cts[last.c].size_ = 2
    /\ BufOf(last.c).size = 2 * PolyCount(cts[last.c])
    /\ Len(BufOf(last.c).words) = 3 * PolyCount(cts[last.c])
    /\ \E i \in 1 .. BufOf(last.c).size : BufOf(last.c).words[i] # 0
\* C23: hasSeedMarker() is true exactly when size is 2 and the first word of
\* polynomial 1 is the all-ones word; it is false, without raising, for an
\* Empty or Reserved container and for every size other than 2.
C23_SeedMarkerIffSentinel ==
    \A c \in Cts :
        /\ hasSeedMarker(View(c)) \in BOOLEAN
        /\ hasSeedMarker(View(c)) <=>
               /\ cts[c].size_ = 2
               /\ BufOf(c).size > PolyCount(cts[c])
               /\ BufOf(c).words[PolyCount(cts[c]) + 1] = SeedMarker
        /\ (cts[c].size_ # 2 \/ BufOf(c).size = 0) => ~hasSeedMarker(View(c))

C23_Witness ==
    /\ hasSeedMarker(View(1))
    /\ cts[1].size_ = 2
    /\ cts[2].size_ = 3
    /\ BufOf(2).size = 3 * PolyCount(cts[2])
    /\ BufOf(2).words[PolyCount(cts[2]) + 1] = SeedMarker
    /\ ~hasSeedMarker(View(2))

C25_SeedPendingNotTransparent ==
    \A c \in Cts : hasSeedMarker(View(c)) => ~isTransparent(View(c))

C25_Witness ==
    /\ hasSeedMarker(View(1))
    /\ ~isTransparent(View(1))
    /\ \A i \in 1 .. BufOf(1).size :
           i # PolyCount(cts[1]) + 1 => BufOf(1).words[i] = 0
====
